---- MODULE Spec2Model ----
(***************************************************************************)
(* A model of run.py: the fine-tuning script of a Faster R-CNN detector.   *)
(*                                                                         *)
(* Three specifications share the variables below.                         *)
(*   Spec       the whole script: the training loop (lines 113-151), the   *)
(*              checkpoint load (154-163), the test-set visualisation      *)
(*              (194-211), the image stage (260-293), the video stage      *)
(*              (335-390).                                                 *)
(*   SpecBatch  the preparation of one batch of targets, as the training   *)
(*              loop (121-131) and evaluate_model (74-84) do it.           *)
(*   SpecEval   one call of evaluate_model (67-107), image by image.       *)
(*                                                                         *)
(* Tensors are sequences; index k of the code is index k+1 here.  Box      *)
(* coordinates are small integers, which float32 represents and adds       *)
(* exactly.  A mean is kept as the pair <<sum, count>> it is the quotient  *)
(* of, and compared by cross-multiplication.  The detector itself (losses, *)
(* predicted boxes, box_iou) belongs to torch/torchvision: its results are *)
(* inputs drawn from small sets.                                           *)
(***************************************************************************)
EXTENDS Integers, Sequences, FiniteSets

VARIABLES
  pc,                   \* position in the script
  cwd_is_content,       \* whether the working directory is /content
  rel_best_model_pth,   \* contents of ./best_model.pth           (lines 148, 265, 340)
  abs_best_model_pth,   \* contents of /content/best_model.pth    (line 157)
  epoch,                \* loop variable of line 117: epochs finished so far
  i,                    \* loop variable of line 119: batches finished this epoch
  model_training,       \* model.training
  model_weights,        \* the model's state_dict: its origin and the optimizer steps since
  n_zero_grad,          \* calls of optimizer.zero_grad()
  n_backward,           \* calls of losses.backward()
  n_opt_step,           \* calls of optimizer.step()
  sched_steps,          \* calls of lr_scheduler.step()
  n_evals,              \* calls of evaluate_model by the training loop
  n_decisions,          \* executions of the if of line 146
  best_mean_iou,        \* line 115
  mean_iou,             \* line 104 / 145
  accuracy,             \* line 105 / 145
  iou_history,          \* history: the mean IoU values evaluate_model has returned to the loop
  n_saves,              \* history: calls of torch.save by this run
  saved_iou,            \* history: the mean IoU of the epoch that made the last save
  saved_weights,        \* history: the weights of the last save of this run
  load_log,             \* history: one record per torch.load attempted
  forward_log,          \* history: the last forward pass, and the mode it ran in
  step_mode,            \* history: model.training at the last optimizer.step()
  output,               \* one image's detections (lines 202, 89)
  predictions,          \* line 204-210
  show_calls,           \* calls of show_image_with_predictions
  n_images,             \* images the current loop has handled
  raw,                  \* a batch as the data loader yields it: annotation lists
  targets,              \* targets after lines 121-128 / 74-81
  filtered_targets,     \* targets after lines 130-131 / 83-84
  iou_list,             \* line 69
  correct_predictions,  \* line 70
  total_predictions,    \* line 70
  cur                   \* the image evaluate_model handled last

run_vars == <<pc, cwd_is_content, rel_best_model_pth, abs_best_model_pth, epoch, i,
              model_training, model_weights, n_zero_grad, n_backward, n_opt_step,
              sched_steps, n_evals, n_decisions, best_mean_iou, mean_iou, accuracy,
              iou_history, n_saves, saved_iou, saved_weights, load_log, forward_log,
              step_mode>>
viz_vars == <<output, predictions, show_calls, n_images>>
batch_vars == <<raw, targets, filtered_targets>>
eval_vars == <<iou_list, correct_predictions, total_predictions, cur>>
vars == <<run_vars, viz_vars, batch_vars, eval_vars>>

(***************************************************************************)
(* Program constants.                                                      *)
(***************************************************************************)
num_epochs == 10
num_classes == 2
batch_size == 2
\* The threshold 0.5 of line 209, in tenths.
score_threshold == 5

(***************************************************************************)
(* Bounds of the model.                                                    *)
(***************************************************************************)
\* Batches of the training loader per epoch: len(data_loader).
NumTrainBatches == 2
\* Images of the test set, frames of the video.
NumImages == 2
\* Images one evaluate_model call sees (SpecEval).
NumValImages == 2
\* Annotations of one batch (SpecBatch); annotations of one image (SpecEval).
MaxBoxes == 2
\* Detections the model returns for one image.
MaxDet == 2

(***************************************************************************)
(* Data.                                                                   *)
(***************************************************************************)
Labels == 0..(num_classes - 1)
\* COCO boxes [x, y, w, h]; widths and heights may be malformed (<= 0).
Corners == {<<0, 1>>, <<1, 0>>}
Extents == {-1, 0, 1}
BBoxes == {<<c[1], c[2], w, h>> : c \in Corners, w \in Extents, h \in Extents}
Annotations == [bbox : BBoxes, category_id : Labels]
\* Per-image mean IoU values (iou.mean().item()), in halves: 0, 0.5, 1.
IoUValues == {0, 1, 2}
\* Confidence scores in tenths: below, at and above the threshold.
Scores == {score_threshold - 1, score_threshold, score_threshold + 1}
Detections == [score : Scores, label : Labels]

\* A state_dict: where the weights started from and the optimizer steps since.
Pretrained == [init |-> "pretrained", steps |-> 0]
EarlierRun == [init |-> "earlier_run", steps |-> 0]
\* A file is the sequence of what it holds: <<>> when it does not exist.
NoFile == <<>>

(***************************************************************************)
(* Means as quotients.                                                     *)
(***************************************************************************)
Zero == <<0, 1>>
Gt(a, b) == a[1] * b[2] > b[1] * a[2]
RECURSIVE Sum(_)
Sum(s) == IF s = <<>> THEN 0 ELSE Head(s) + Sum(Tail(s))
Min(a, b) == IF a <= b THEN a ELSE b

(***************************************************************************)
(* Lines 121-123 / 74-76: the tensors of one annotation list.              *)
(***************************************************************************)
BuildTarget(t) ==
  [boxes  |-> [k \in 1..Len(t) |-> t[k].bbox],
   labels |-> [k \in 1..Len(t) |-> t[k].category_id]]

\* torch.tensor([]) has one dimension, so boxes[:, 2] raises IndexError for an
\* image without annotations.
ColumnIndexRaises(t) == Len(t) = 0

(***************************************************************************)
(* Lines 124-128 / 77-81: boxes[:, 2] += boxes[:, 0]; boxes[:, 3] +=       *)
(* boxes[:, 1].                                                            *)
(***************************************************************************)
\* (a slip: the height is added to x instead of y)
ConvertBoxWrongColumn(b) == <<b[1], b[2], b[3] + b[1], b[4] + b[1]>>

ConvertBox(b) == <<b[1], b[2], b[3] + b[1], b[4] + b[2]>>

ConvertTarget(target) ==
  [target EXCEPT !.boxes = [k \in 1..Len(target.boxes) |-> ConvertBox(target.boxes[k])]]

PrepareTargets(batch) ==
  [n \in 1..Len(batch) |-> ConvertTarget(BuildTarget(batch[n]))]

(***************************************************************************)
(* Lines 50-64: filter_and_correct_boxes.                                  *)
(***************************************************************************)
\* (a slip: the height is not tested)
ValidBoxWidthOnly(box) == box[3] > box[1]

ValidBox(box) == box[3] > box[1] /\ box[4] > box[2]

RECURSIVE ValidIndices(_, _)
ValidIndices(boxes, k) ==
  IF k > Len(boxes) THEN <<>>
  ELSE IF ValidBox(boxes[k]) THEN <<k>> \o ValidIndices(boxes, k + 1)
  ELSE ValidIndices(boxes, k + 1)

\* (a slip: the labels are cut to the length of the kept boxes, not indexed)
FilterTargetLabelsByPosition(target) ==
  LET valid_indices == ValidIndices(target.boxes, 1)
  IN  [boxes  |-> [j \in 1..Len(valid_indices) |-> target.boxes[valid_indices[j]]],
       labels |-> [j \in 1..Len(valid_indices) |-> target.labels[j]]]

FilterTarget(target) ==
  LET valid_indices == ValidIndices(target.boxes, 1)
  IN  [boxes  |-> [j \in 1..Len(valid_indices) |-> target.boxes[valid_indices[j]]],
       labels |-> [j \in 1..Len(valid_indices) |-> target.labels[valid_indices[j]]]]

filter_and_correct_boxes(ts) == [n \in 1..Len(ts) |-> FilterTarget(ts[n])]

(***************************************************************************)
(* Lines 88-102: what one image adds to evaluate_model's accumulators.     *)
(* img.ann is the image's annotation list, img.pred_labels the labels of   *)
(* the boxes the model returned for it, img.iou the value of               *)
(* box_iou(pred_boxes, true_boxes).mean().                                 *)
(***************************************************************************)
TrueTarget(img) == filter_and_correct_boxes(PrepareTargets(<<img.ann>>))[1]

\* (a slip: an image whose boxes were all filtered out is not skipped)
SkippedWithoutPredictions(img) == Len(img.pred_labels) = 0

Skipped(img) == Len(img.pred_labels) = 0 \/ Len(TrueTarget(img).boxes) = 0

Matches(pred_labels, true_labels) ==
  LET min_size == Min(Len(pred_labels), Len(true_labels))
  IN  Cardinality({k \in 1..min_size : pred_labels[k] = true_labels[k]})

EvalImage(acc, img) ==
  IF Skipped(img) THEN acc
  ELSE LET true_labels == TrueTarget(img).labels
       IN  [iou_list |-> Append(acc.iou_list, img.iou),
            correct  |-> acc.correct + Matches(img.pred_labels, true_labels),
            total    |-> acc.total + Min(Len(img.pred_labels), Len(true_labels))]

\* Lines 69-70.
EmptyAcc == [iou_list |-> <<>>, correct |-> 0, total |-> 0]

\* Line 104.
MeanIoU(l) == IF Len(l) # 0 THEN <<Sum(l), Len(l)>> ELSE Zero
\* Line 105.
Accuracy(c, t) == IF t # 0 THEN <<c, t>> ELSE Zero

RECURSIVE EvalLoop(_, _)
EvalLoop(acc, imgs) ==
  IF imgs = <<>> THEN acc ELSE EvalLoop(EvalImage(acc, Head(imgs)), Tail(imgs))

\* Lines 67-107, for a data set none of whose images raises.
evaluate_model(imgs) ==
  LET acc == EvalLoop(EmptyAcc, imgs)
  IN  <<MeanIoU(acc.iou_list), Accuracy(acc.correct, acc.total)>>

(***************************************************************************)
(* Lines 204-210: the predictions of one image that are shown.             *)
(***************************************************************************)
\* (a slip: >= for >)
ShownAtThreshold(score) == score >= score_threshold

Shown(score) == score > score_threshold

RECURSIVE SelectPredictions(_, _)
SelectPredictions(out, j) ==
  IF j > Len(out) THEN <<>>
  ELSE IF Shown(out[j].score) THEN <<out[j]>> \o SelectPredictions(out, j + 1)
  ELSE SelectPredictions(out, j + 1)

(***************************************************************************)
(* The script.                                                             *)
(***************************************************************************)
FileStates == {NoFile, <<EarlierRun>>}

NoForward == [kind |-> "none", training |-> FALSE]

Init ==
  /\ pc = "epoch_loop"
  /\ cwd_is_content \in BOOLEAN
  /\ rel_best_model_pth \in FileStates
  /\ abs_best_model_pth \in FileStates
  /\ cwd_is_content => abs_best_model_pth = rel_best_model_pth
  /\ epoch = 0
  /\ i = 0
  /\ model_training = TRUE
  /\ model_weights = Pretrained
  /\ n_zero_grad = 0 /\ n_backward = 0 /\ n_opt_step = 0
  /\ sched_steps = 0 /\ n_evals = 0 /\ n_decisions = 0
  /\ best_mean_iou = Zero
  /\ mean_iou = Zero
  /\ accuracy = Zero
  /\ iou_history = {}
  /\ n_saves = 0
  /\ saved_iou = Zero
  /\ saved_weights = Pretrained
  /\ load_log = <<>>
  /\ forward_log = NoForward
  /\ step_mode = TRUE
  /\ output = <<>> /\ predictions = <<>> /\ show_calls = 0 /\ n_images = 0
  /\ raw = <<>> /\ targets = <<>> /\ filtered_targets = <<>>
  /\ iou_list = <<>> /\ correct_predictions = 0 /\ total_predictions = 0
  /\ cur = <<>>

\* model.train() / model.eval(): the value model.training takes.
\* (a slip: model.train() is forgotten)
model_train_forgotten == model_training

model_train == TRUE
model_eval == FALSE

\* Line 117-118: the next epoch begins.
EpochBegin ==
  /\ pc = "epoch_loop"
  /\ epoch < num_epochs
  /\ model_training' = model_train
  /\ i' = 0
  /\ pc' = "batch_loop"
  /\ UNCHANGED <<cwd_is_content, rel_best_model_pth, abs_best_model_pth, epoch,
                 model_weights, n_zero_grad, n_backward, n_opt_step, sched_steps,
                 n_evals, n_decisions, best_mean_iou, mean_iou, accuracy, iou_history,
                 n_saves, saved_iou, saved_weights, load_log, forward_log, step_mode>>
  /\ UNCHANGED <<viz_vars, batch_vars, eval_vars>>

\* Lines 119-134: the loader yields a batch, its targets are prepared and the
\* model computes the losses.  Preparing the targets raises when an image of
\* the batch has no annotation (ColumnIndexRaises).
BatchForward ==
  /\ pc = "batch_loop"
  /\ i < NumTrainBatches
  /\ \E raises \in BOOLEAN :
       IF raises
       THEN pc' = "raised" /\ UNCHANGED forward_log
       ELSE /\ pc' = "zero_grad"
            /\ forward_log' = [kind |-> "train", training |-> model_training]
  /\ UNCHANGED <<cwd_is_content, rel_best_model_pth, abs_best_model_pth, epoch, i,
                 model_training, model_weights, n_zero_grad, n_backward, n_opt_step,
                 sched_steps, n_evals, n_decisions, best_mean_iou, mean_iou, accuracy,
                 iou_history, n_saves, saved_iou, saved_weights, load_log, step_mode>>
  /\ UNCHANGED <<viz_vars, batch_vars, eval_vars>>

\* Line 136.
ZeroGrad ==
  /\ pc = "zero_grad"
  /\ n_zero_grad' = n_zero_grad + 1
  /\ pc' = "backward"
  /\ UNCHANGED <<cwd_is_content, rel_best_model_pth, abs_best_model_pth, epoch, i,
                 model_training, model_weights, n_backward, n_opt_step,
                 sched_steps, n_evals, n_decisions, best_mean_iou, mean_iou, accuracy,
                 iou_history, n_saves, saved_iou, saved_weights, load_log, forward_log,
                 step_mode>>
  /\ UNCHANGED <<viz_vars, batch_vars, eval_vars>>

\* Line 137.
Backward ==
  /\ pc = "backward"
  /\ n_backward' = n_backward + 1
  /\ pc' = "optimizer_step"
  /\ UNCHANGED <<cwd_is_content, rel_best_model_pth, abs_best_model_pth, epoch, i,
                 model_training, model_weights, n_zero_grad, n_opt_step,
                 sched_steps, n_evals, n_decisions, best_mean_iou, mean_iou, accuracy,
                 iou_history, n_saves, saved_iou, saved_weights, load_log, forward_log,
                 step_mode>>
  /\ UNCHANGED <<viz_vars, batch_vars, eval_vars>>

\* Lines 138-141: the optimizer changes the weights; the batch is done.
OptimizerStep ==
  /\ pc = "optimizer_step"
  /\ n_opt_step' = n_opt_step + 1
  /\ model_weights' = [model_weights EXCEPT !.steps = @ + 1]
  /\ step_mode' = model_training
  /\ i' = i + 1
  /\ pc' = "batch_loop"
  /\ UNCHANGED <<cwd_is_content, rel_best_model_pth, abs_best_model_pth, epoch,
                 model_training, n_zero_grad, n_backward,
                 sched_steps, n_evals, n_decisions, best_mean_iou, mean_iou, accuracy,
                 iou_history, n_saves, saved_iou, saved_weights, load_log, forward_log>>
  /\ UNCHANGED <<viz_vars, batch_vars, eval_vars>>

\* (a slip: lr_scheduler.step() is left out)
BatchesDoneSkipsScheduler ==
  /\ pc = "batch_loop"
  /\ i = NumTrainBatches
  /\ pc' = "evaluate"
  /\ UNCHANGED <<cwd_is_content, rel_best_model_pth, abs_best_model_pth, epoch, i,
                 model_training, model_weights, n_zero_grad, n_backward, n_opt_step,
                 sched_steps, n_evals, n_decisions, best_mean_iou, mean_iou, accuracy,
                 iou_history, n_saves, saved_iou, saved_weights, load_log, forward_log,
                 step_mode>>
  /\ UNCHANGED <<viz_vars, batch_vars, eval_vars>>

\* Line 119, exhausted: the loader has no batch left.
BatchesDone ==
  /\ pc = "batch_loop"
  /\ i = NumTrainBatches
  /\ pc' = "lr_scheduler_step"
  /\ UNCHANGED <<cwd_is_content, rel_best_model_pth, abs_best_model_pth, epoch, i,
                 model_training, model_weights, n_zero_grad, n_backward, n_opt_step,
                 sched_steps, n_evals, n_decisions, best_mean_iou, mean_iou, accuracy,
                 iou_history, n_saves, saved_iou, saved_weights, load_log, forward_log,
                 step_mode>>
  /\ UNCHANGED <<viz_vars, batch_vars, eval_vars>>

\* Line 143.
LrSchedulerStep ==
  /\ pc = "lr_scheduler_step"
  /\ sched_steps' = sched_steps + 1
  /\ pc' = "evaluate"
  /\ UNCHANGED <<cwd_is_content, rel_best_model_pth, abs_best_model_pth, epoch, i,
                 model_training, model_weights, n_zero_grad, n_backward, n_opt_step,
                 n_evals, n_decisions, best_mean_iou, mean_iou, accuracy,
                 iou_history, n_saves, saved_iou, saved_weights, load_log, forward_log,
                 step_mode>>
  /\ UNCHANGED <<viz_vars, batch_vars, eval_vars>>

\* The validation sets of the script's specification: one image with at most
\* one annotation and one detection.
RunValImages ==
  {[ann |-> a, pred_labels |-> p, iou |-> v] :
     a \in UNION {[1..k -> Annotations] : k \in 0..1},
     p \in UNION {[1..k -> Labels] : k \in 0..1},
     v \in IoUValues}
\* What evaluate_model returns for them.
EvalOutcomes ==
  {evaluate_model(<<img>>) : img \in {im \in RunValImages : ~ColumnIndexRaises(im.ann)}}

\* Line 145: evaluate_model(model, test_data_loader) returns, or raises on an
\* image without annotations.
Evaluate ==
  /\ pc = "evaluate"
  /\ model_training' = model_eval
  /\ \/ /\ \E im \in RunValImages : ColumnIndexRaises(im.ann)
        /\ pc' = "raised"
        /\ UNCHANGED <<mean_iou, accuracy, iou_history, n_evals, forward_log>>
     \/ \E r \in EvalOutcomes :
          /\ mean_iou' = r[1]
          /\ accuracy' = r[2]
          /\ iou_history' = iou_history \cup {r[1]}
          /\ n_evals' = n_evals + 1
          /\ forward_log' = [kind |-> "evaluate", training |-> model_training']
          /\ pc' = "checkpoint"
  /\ UNCHANGED <<cwd_is_content, rel_best_model_pth, abs_best_model_pth, epoch, i,
                 model_weights, n_zero_grad, n_backward, n_opt_step, sched_steps,
                 n_decisions, best_mean_iou, n_saves, saved_iou, saved_weights,
                 load_log, step_mode>>
  /\ UNCHANGED <<viz_vars, batch_vars, eval_vars>>

\* Line 146: the condition of the save.
\* (a slip: >= for >)
ImprovesOrTies(m, best) == ~Gt(best, m)

Improves(m, best) == Gt(m, best)

\* Lines 146-149: the checkpoint decision, which ends the epoch.  torch.save
\* writes ./best_model.pth, which is /content/best_model.pth when the working
\* directory is /content.
Checkpoint ==
  /\ pc = "checkpoint"
  /\ IF Improves(mean_iou, best_mean_iou)
     THEN /\ best_mean_iou' = mean_iou
          /\ rel_best_model_pth' = <<model_weights>>
          /\ abs_best_model_pth' =
               IF cwd_is_content THEN <<model_weights>> ELSE abs_best_model_pth
          /\ n_saves' = n_saves + 1
          /\ saved_iou' = mean_iou
          /\ saved_weights' = model_weights
     ELSE UNCHANGED <<best_mean_iou, rel_best_model_pth, abs_best_model_pth, n_saves,
                      saved_iou, saved_weights>>
  /\ n_decisions' = n_decisions + 1
  /\ epoch' = epoch + 1
  /\ pc' = "epoch_loop"
  /\ UNCHANGED <<cwd_is_content, i, model_training, model_weights, n_zero_grad,
                 n_backward, n_opt_step, sched_steps, n_evals, mean_iou, accuracy,
                 iou_history, load_log, forward_log, step_mode>>
  /\ UNCHANGED <<viz_vars, batch_vars, eval_vars>>

\* Line 151: print("Training completed.").
TrainingCompleted ==
  /\ pc = "epoch_loop"
  /\ epoch = num_epochs
  /\ pc' = "completed"
  /\ UNCHANGED <<cwd_is_content, rel_best_model_pth, abs_best_model_pth, epoch, i,
                 model_training, model_weights, n_zero_grad, n_backward, n_opt_step,
                 sched_steps, n_evals, n_decisions, best_mean_iou, mean_iou, accuracy,
                 iou_history, n_saves, saved_iou, saved_weights, load_log, forward_log,
                 step_mode>>
  /\ UNCHANGED <<viz_vars, batch_vars, eval_vars>>

\* The variables no stage after the training loop changes.
train_vars == <<cwd_is_content, rel_best_model_pth, abs_best_model_pth, epoch, i,
                model_weights, n_zero_grad, n_backward, n_opt_step, sched_steps, n_evals,
                n_decisions, best_mean_iou, mean_iou, accuracy, iou_history, n_saves,
                saved_iou, saved_weights, step_mode>>
\* as train_vars, for the stages that load the weights.
kept_by_load == <<cwd_is_content, rel_best_model_pth, abs_best_model_pth, epoch, i,
                  n_zero_grad, n_backward, n_opt_step, sched_steps, n_evals,
                  n_decisions, best_mean_iou, mean_iou, accuracy, iou_history, n_saves,
                  saved_iou, saved_weights, step_mode>>

\* torch.load(path) and load_state_dict: the file's weights, when it exists.
LoadAttempt(stage, file) == [stage |-> stage, file |-> file]

\* Lines 157-163: a new model (a new module is in training mode) takes the
\* weights of /content/best_model.pth; torch.load raises when the file is missing.
LoadModel ==
  /\ pc = "completed"
  /\ load_log' = Append(load_log, LoadAttempt("load_model", abs_best_model_pth))
  /\ IF abs_best_model_pth = NoFile
     THEN pc' = "raised" /\ UNCHANGED <<model_weights, model_training>>
     ELSE /\ model_weights' = abs_best_model_pth[1]
          /\ model_training' = TRUE
          /\ pc' = "test_eval_mode"
  /\ UNCHANGED <<kept_by_load, forward_log>>
  /\ UNCHANGED <<viz_vars, batch_vars, eval_vars>>

\* Line 195: model.eval().
TestEvalMode ==
  /\ pc = "test_eval_mode"
  /\ model_training' = model_eval
  /\ n_images' = 0
  /\ pc' = "test_loop"
  /\ UNCHANGED <<train_vars, load_log, forward_log>>
  /\ UNCHANGED <<output, predictions, show_calls, batch_vars, eval_vars>>

\* Lines 197-211, for one image: the model's output for it, the predictions
\* above the threshold, and the call of show_image_with_predictions.
TestImage ==
  /\ pc = "test_loop"
  /\ n_images < NumImages
  /\ \E n \in 0..MaxDet : \E out \in [1..n -> Detections] :
       /\ output' = out
       /\ predictions' = SelectPredictions(out, 1)
  /\ forward_log' = [kind |-> "test", training |-> model_training]
  /\ show_calls' = show_calls + 1
  /\ pc' = "test_shown"
  /\ UNCHANGED <<train_vars, model_training, load_log, n_images>>
  /\ UNCHANGED <<batch_vars, eval_vars>>

\* Line 202, next iteration: output and predictions are bound anew (lines 202,
\* 204) before they are read again, so their old values are dropped here.
TestNext ==
  /\ pc = "test_shown"
  /\ n_images' = n_images + 1
  /\ output' = <<>>
  /\ predictions' = <<>>
  /\ pc' = "test_loop"
  /\ UNCHANGED <<train_vars, model_training, load_log, forward_log, show_calls>>
  /\ UNCHANGED <<batch_vars, eval_vars>>

\* Line 197, exhausted.
TestDone ==
  /\ pc = "test_loop"
  /\ n_images = NumImages
  /\ pc' = "image_load"
  /\ UNCHANGED <<train_vars, model_training, load_log, forward_log>>
  /\ UNCHANGED <<viz_vars, batch_vars, eval_vars>>

\* Lines 261-267: a new model takes the weights of ./best_model.pth, then
\* model.eval().
ImageLoad ==
  /\ pc = "image_load"
  /\ load_log' = Append(load_log, LoadAttempt("image", rel_best_model_pth))
  /\ IF rel_best_model_pth = NoFile
     THEN pc' = "raised" /\ UNCHANGED <<model_weights, model_training>>
     ELSE /\ model_weights' = rel_best_model_pth[1]
          /\ model_training' = model_eval
          /\ pc' = "image_infer"
  /\ UNCHANGED <<kept_by_load, forward_log>>
  /\ UNCHANGED <<viz_vars, batch_vars, eval_vars>>

\* Lines 270-293: inference on the single test image; every box is drawn.
ImageInfer ==
  /\ pc = "image_infer"
  /\ forward_log' = [kind |-> "image", training |-> model_training]
  /\ pc' = "video_load"
  /\ UNCHANGED <<train_vars, model_training, load_log>>
  /\ UNCHANGED <<viz_vars, batch_vars, eval_vars>>

\* Lines 336-342: as lines 261-267.
VideoLoad ==
  /\ pc = "video_load"
  /\ load_log' = Append(load_log, LoadAttempt("video", rel_best_model_pth))
  /\ IF rel_best_model_pth = NoFile
     THEN pc' = "raised" /\ UNCHANGED <<model_weights, model_training, n_images>>
     ELSE /\ model_weights' = rel_best_model_pth[1]
          /\ model_training' = model_eval
          /\ n_images' = 0
          /\ pc' = "video_loop"
  /\ UNCHANGED <<kept_by_load, forward_log>>
  /\ UNCHANGED <<output, predictions, show_calls, batch_vars, eval_vars>>

\* Lines 356-385, for one frame.
VideoFrame ==
  /\ pc = "video_loop"
  /\ n_images < NumImages
  /\ forward_log' = [kind |-> "video", training |-> model_training]
  /\ n_images' = n_images + 1
  /\ UNCHANGED <<train_vars, model_training, load_log, pc>>
  /\ UNCHANGED <<output, predictions, show_calls, batch_vars, eval_vars>>

\* Lines 359-360 and 387-390: no frame is left.
VideoDone ==
  /\ pc = "video_loop"
  /\ n_images = NumImages
  /\ pc' = "done"
  /\ UNCHANGED <<train_vars, model_training, load_log, forward_log>>
  /\ UNCHANGED <<viz_vars, batch_vars, eval_vars>>

Next ==
  \/ EpochBegin
  \/ BatchForward
  \/ ZeroGrad
  \/ Backward
  \/ OptimizerStep
  \/ BatchesDone
  \/ LrSchedulerStep
  \/ Evaluate
  \/ Checkpoint
  \/ TrainingCompleted
  \/ LoadModel
  \/ TestEvalMode
  \/ TestImage
  \/ TestNext
  \/ TestDone
  \/ ImageLoad
  \/ ImageInfer
  \/ VideoLoad
  \/ VideoFrame
  \/ VideoDone

Spec == Init /\ [][Next]_vars

(***************************************************************************)
(* SpecBatch: one batch of the data loader, prepared as the training loop  *)
(* (lines 121-131) or as evaluate_model (lines 74-84) prepares it.         *)
(***************************************************************************)
\* Every variable of the script but pc and the model's mode and results.
run_rest == <<cwd_is_content, rel_best_model_pth, abs_best_model_pth, epoch, i,
              model_weights, n_zero_grad, n_backward, n_opt_step, sched_steps, n_evals,
              n_decisions, best_mean_iou, iou_history, n_saves, saved_iou,
              saved_weights, load_log, forward_log, step_mode>>

AnnotationLists(k) == [1..k -> Annotations]

\* A batch holds one or two images (batch_size = 2), MaxBoxes annotations in all.
InitBatch ==
  /\ pc = "batch_loaded"
  /\ \/ \E k \in 0..MaxBoxes : \E t \in AnnotationLists(k) : raw = <<t>>
     \/ \E k1 \in 0..MaxBoxes : \E k2 \in 0..(MaxBoxes - k1) :
          \E t1 \in AnnotationLists(k1) : \E t2 \in AnnotationLists(k2) :
            raw = <<t1, t2>>
  /\ targets = <<>> /\ filtered_targets = <<>>
  /\ cwd_is_content = TRUE
  /\ rel_best_model_pth = NoFile /\ abs_best_model_pth = NoFile
  /\ epoch = 0 /\ i = 0
  /\ model_training = TRUE
  /\ model_weights = Pretrained
  /\ n_zero_grad = 0 /\ n_backward = 0 /\ n_opt_step = 0
  /\ sched_steps = 0 /\ n_evals = 0 /\ n_decisions = 0
  /\ best_mean_iou = Zero /\ mean_iou = Zero /\ accuracy = Zero
  /\ iou_history = {} /\ n_saves = 0 /\ saved_iou = Zero /\ saved_weights = Pretrained
  /\ load_log = <<>> /\ forward_log = NoForward /\ step_mode = TRUE
  /\ output = <<>> /\ predictions = <<>> /\ show_calls = 0 /\ n_images = 0
  /\ iou_list = <<>> /\ correct_predictions = 0 /\ total_predictions = 0
  /\ cur = <<>>

\* Lines 121-131: the targets the training loop hands to the model.
TrainTargets ==
  /\ pc = "batch_loaded"
  /\ IF \E n \in 1..Len(raw) : ColumnIndexRaises(raw[n])
     THEN pc' = "raised" /\ UNCHANGED <<targets, filtered_targets>>
     ELSE /\ targets' = PrepareTargets(raw)
          /\ filtered_targets' = filter_and_correct_boxes(targets')
          /\ pc' = "train_targets"
  /\ UNCHANGED <<run_rest, model_training, mean_iou, accuracy, raw>>
  /\ UNCHANGED <<viz_vars, eval_vars>>

\* Lines 74-84: the targets evaluate_model compares the predictions with.
EvalTargets ==
  /\ pc = "batch_loaded"
  /\ IF \E n \in 1..Len(raw) : ColumnIndexRaises(raw[n])
     THEN pc' = "raised" /\ UNCHANGED <<targets, filtered_targets>>
     ELSE /\ targets' = PrepareTargets(raw)
          /\ filtered_targets' = filter_and_correct_boxes(targets')
          /\ pc' = "eval_targets"
  /\ UNCHANGED <<run_rest, model_training, mean_iou, accuracy, raw>>
  /\ UNCHANGED <<viz_vars, eval_vars>>

NextBatch ==
  \/ TrainTargets
  \/ EvalTargets

SpecBatch == InitBatch /\ [][NextBatch]_vars

(***************************************************************************)
(* SpecEval: one call of evaluate_model (lines 67-107), an image at a      *)
(* time.  The data loader is an input: it yields up to NumValImages        *)
(* images, each with at most MaxBoxes annotations, and the model returns   *)
(* at most MaxDet boxes for each.                                          *)
(***************************************************************************)
\* The annotations of SpecEval: a well-formed and a malformed box, any label.
EvalBBoxes == {b \in BBoxes : b[1] = 0 /\ b[3] >= 0 /\ b[4] = 1}
EvalAnnotations == [bbox : EvalBBoxes, category_id : Labels]

InitEval ==
  /\ pc = "eval_call"
  /\ model_training \in BOOLEAN
  /\ iou_list = <<>> /\ correct_predictions = 0 /\ total_predictions = 0
  /\ cur = <<>>
  /\ n_images = 0
  /\ raw = <<>> /\ targets = <<>> /\ filtered_targets = <<>>
  /\ cwd_is_content = TRUE
  /\ rel_best_model_pth = NoFile /\ abs_best_model_pth = NoFile
  /\ epoch = 0 /\ i = 0
  /\ model_weights = Pretrained
  /\ n_zero_grad = 0 /\ n_backward = 0 /\ n_opt_step = 0
  /\ sched_steps = 0 /\ n_evals = 0 /\ n_decisions = 0
  /\ best_mean_iou = Zero /\ mean_iou = Zero /\ accuracy = Zero
  /\ iou_history = {} /\ n_saves = 0 /\ saved_iou = Zero /\ saved_weights = Pretrained
  /\ load_log = <<>> /\ forward_log = NoForward /\ step_mode = TRUE
  /\ output = <<>> /\ predictions = <<>> /\ show_calls = 0

\* Lines 68-70.
EvalBegin ==
  /\ pc = "eval_call"
  /\ model_training' = model_eval
  /\ iou_list' = EmptyAcc.iou_list
  /\ correct_predictions' = EmptyAcc.correct
  /\ total_predictions' = EmptyAcc.total
  /\ pc' = "eval_loop"
  /\ UNCHANGED <<run_rest, mean_iou, accuracy, cur>>
  /\ UNCHANGED <<viz_vars, batch_vars>>

\* Lines 72-102, for one image of the loader.
EvalOne ==
  /\ pc = "eval_loop"
  /\ n_images < NumValImages
  /\ \E k \in 0..MaxBoxes : \E a \in [1..k -> EvalAnnotations] :
     \E d \in 0..MaxDet : \E p \in [1..d -> Labels] : \E v \in IoUValues :
       LET img == [ann |-> a, pred_labels |-> p, iou |-> v]
           acc == EvalImage([iou_list |-> iou_list, correct |-> correct_predictions,
                             total |-> total_predictions], img)
       IN  /\ cur' = <<img>>
           /\ IF ColumnIndexRaises(a)
              THEN /\ pc' = "raised"
                   /\ UNCHANGED <<iou_list, correct_predictions, total_predictions>>
              ELSE /\ iou_list' = acc.iou_list
                   /\ correct_predictions' = acc.correct
                   /\ total_predictions' = acc.total
                   /\ pc' = "eval_image"
  /\ UNCHANGED <<run_rest, model_training, mean_iou, accuracy>>
  /\ UNCHANGED <<viz_vars, batch_vars>>

\* Lines 72 and 88, next iteration: the image handled is not read again.
EvalNext ==
  /\ pc = "eval_image"
  /\ n_images' = n_images + 1
  /\ cur' = <<>>
  /\ pc' = "eval_loop"
  /\ UNCHANGED <<run_rest, model_training, mean_iou, accuracy>>
  /\ UNCHANGED <<output, predictions, show_calls, batch_vars>>
  /\ UNCHANGED <<iou_list, correct_predictions, total_predictions>>

\* Lines 104-107: the loader is exhausted.
EvalReturn ==
  /\ pc = "eval_loop"
  /\ mean_iou' = MeanIoU(iou_list)
  /\ accuracy' = Accuracy(correct_predictions, total_predictions)
  /\ pc' = "eval_returned"
  /\ UNCHANGED <<run_rest, model_training>>
  /\ UNCHANGED <<viz_vars, batch_vars, eval_vars>>

NextEval ==
  \/ EvalBegin
  \/ EvalOne
  \/ EvalNext
  \/ EvalReturn

SpecEval == InitEval /\ [][NextEval]_vars

(***************************************************************************)
(* The properties.                                                         *)
(***************************************************************************)
\* The k-th smallest member of a set of indices, and the subsequence it picks.
Kth(S, j) == CHOOSE k \in S : Cardinality({m \in S : m <= k}) = j
Pick(seq, S) == [j \in 1..Cardinality(S) |-> seq[Kth(S, j)]]

\* Equality of two quotients, and the maximum of a set of them.
Eq(a, b) == a[1] * b[2] = b[1] * a[2]
IsMaxOf(v, S) == (\E w \in S : Eq(w, v)) /\ (\A w \in S : ~Gt(w, v))

TrainingOver ==
  pc \in {"completed", "test_eval_mode", "test_loop", "test_shown", "image_load",
          "image_infer", "video_load", "video_loop", "done"}

BatchPrepared == pc \in {"train_targets", "eval_targets"}

\* C1: once the training loop has finished, best_model.pth holds the weights
\* of an epoch of this run whose mean IoU no epoch of the run exceeds.
C1_CheckpointIsBestEpoch ==
  pc = "completed" =>
    /\ n_saves > 0
    /\ rel_best_model_pth = <<saved_weights>>
    /\ IsMaxOf(saved_iou, iou_history)

\* A box in corner format with x2 <= x1 or y2 <= y1.
Malformed(box) == box[3] <= box[1] \/ box[4] <= box[2]

\* C2: filter_and_correct_boxes returns one target per input target, in order;
\* each holds the input boxes that do not satisfy (x2 <= x1 or y2 <= y1), in
\* their order, and the labels at the same indices.
C2_FilterKeepsAlignedSubsequence ==
  BatchPrepared =>
    /\ Len(filtered_targets) = Len(targets)
    /\ \A n \in 1..Len(targets) :
         LET keep == {k \in 1..Len(targets[n].boxes) : ~Malformed(targets[n].boxes[k])}
         IN  /\ filtered_targets[n].boxes = Pick(targets[n].boxes, keep)
             /\ filtered_targets[n].labels = Pick(targets[n].labels, keep)

C2_Witness ==
  /\ pc = "train_targets"
  /\ \E n \in 1..Len(targets) :
       /\ Len(targets[n].boxes) = 2
       /\ Malformed(targets[n].boxes[1])
       /\ ~Malformed(targets[n].boxes[2])
       /\ targets[n].labels[1] # targets[n].labels[2]
       /\ filtered_targets[n].labels = <<targets[n].labels[2]>>

\* C3: in the training loop and in evaluate_model, every annotation box
\* [x, y, w, h] becomes [x, y, x + w, y + h], once, before the filter sees it;
\* the number and the order of the boxes of a target do not change.
C3_ConversionOnceBeforeFilter ==
  BatchPrepared =>
    /\ Len(targets) = Len(raw)
    /\ \A n \in 1..Len(raw) :
         /\ Len(targets[n].boxes) = Len(raw[n])
         /\ \A k \in 1..Len(raw[n]) :
              LET a == raw[n][k].bbox
                  b == targets[n].boxes[k]
              IN  b[1] = a[1] /\ b[2] = a[2] /\ b[3] = a[1] + a[3] /\ b[4] = a[2] + a[4]
         /\ \A j \in 1..Len(filtered_targets[n].boxes) :
              \E k \in 1..Len(targets[n].boxes) :
                filtered_targets[n].boxes[j] = targets[n].boxes[k]

C3_Witness ==
  /\ pc = "eval_targets"
  /\ Len(raw) = 2
  /\ \E k \in 1..Len(raw[2]) :
       /\ raw[2][k].bbox = <<0, 1, 1, 1>>
       /\ targets[2].boxes[k] = <<0, 1, 1, 2>>

\* C4: every load of the checkpoint follows a save of this run's training
\* loop, and reads the weights of that save, those of the best epoch; no load
\* is attempted when the run has written no checkpoint.
C4_LoadsReadThisRunsCheckpoint ==
  \A k \in 1..Len(load_log) :
    /\ n_saves > 0
    /\ load_log[k].file = <<saved_weights>>
    /\ IsMaxOf(saved_iou, iou_history)

\* The annotations of an image with a positive width and height.
WellFormedCount(ann) ==
  Cardinality({k \in 1..Len(ann) : ann[k].bbox[3] > 0 /\ ann[k].bbox[4] > 0})

\* One image of evaluate_model's loop: counted or skipped.
C5_ImageStep ==
  (pc = "eval_loop" /\ pc' = "eval_image") =>
    LET img == cur'[1]
        np == Len(img.pred_labels)
        nt == WellFormedCount(img.ann)
    IN  IF np >= 1 /\ nt >= 1
        THEN /\ iou_list' = Append(iou_list, img.iou)
             /\ total_predictions' = total_predictions + Min(np, nt)
             /\ correct_predictions' \in
                  correct_predictions..(correct_predictions + Min(np, nt))
        ELSE UNCHANGED <<iou_list, correct_predictions, total_predictions>>

\* What evaluate_model returns.
C5_Returned ==
  pc = "eval_returned" =>
    /\ mean_iou[2] # 0
    /\ accuracy[2] # 0
    /\ IF iou_list = <<>> THEN Eq(mean_iou, Zero)
       ELSE mean_iou[1] * Len(iou_list) = Sum(iou_list) * mean_iou[2]
    /\ IF total_predictions = 0 THEN Eq(accuracy, Zero)
       ELSE accuracy[1] * total_predictions = correct_predictions * accuracy[2]

C6_OnlyWellFormedBoxesRemain ==
  BatchPrepared =>
    \A n \in 1..Len(raw) :
      LET kept == {k \in 1..Len(raw[n]) : raw[n][k].bbox[3] > 0 /\ raw[n][k].bbox[4] > 0}
          out == filtered_targets[n].boxes
      IN  /\ \A j \in 1..Len(out) : out[j][3] > out[j][1] /\ out[j][4] > out[j][2]
          /\ Len(out) = Cardinality(kept)
          /\ \A j \in 1..Len(out) :
               LET a == raw[n][Kth(kept, j)].bbox
               IN  out[j] = <<a[1], a[2], a[1] + a[3], a[2] + a[4]>>

C6_Witness ==
  /\ pc = "train_targets"
  /\ \E n \in 1..Len(raw) :
       /\ Len(raw[n]) = 2
       /\ raw[n][1].bbox[3] > 0 /\ raw[n][1].bbox[4] = 0
       /\ raw[n][2].bbox[3] > 0 /\ raw[n][2].bbox[4] > 0
       /\ Len(filtered_targets[n].boxes) = 1

\* C7: the run makes num_epochs epochs; in each, all batches (zero_grad,
\* backward, optimizer step, in that order) come first, then one scheduler
\* step, then one evaluation, then the checkpoint decision; "Training
\* completed." follows the last epoch's evaluation and decision.
C7_EpochOrder ==
  /\ epoch \in 0..num_epochs
  /\ pc \in {"batch_loop", "zero_grad", "backward", "optimizer_step"} =>
       /\ epoch < num_epochs
       /\ i <= NumTrainBatches
       /\ n_opt_step = epoch * NumTrainBatches + i
       /\ sched_steps = epoch /\ n_evals = epoch /\ n_decisions = epoch
  /\ pc \in {"batch_loop", "zero_grad"} =>
       n_zero_grad = n_opt_step /\ n_backward = n_opt_step
  /\ pc = "backward" =>
       /\ i < NumTrainBatches
       /\ n_zero_grad = n_opt_step + 1 /\ n_backward = n_opt_step
  /\ pc = "optimizer_step" =>
       /\ i < NumTrainBatches
       /\ n_zero_grad = n_opt_step + 1 /\ n_backward = n_opt_step + 1
  /\ pc \in {"lr_scheduler_step", "evaluate", "checkpoint"} =>
       /\ epoch < num_epochs
       /\ n_opt_step = (epoch + 1) * NumTrainBatches
       /\ n_zero_grad = n_opt_step /\ n_backward = n_opt_step
  /\ pc = "lr_scheduler_step" =>
       sched_steps = epoch /\ n_evals = epoch /\ n_decisions = epoch
  /\ pc = "evaluate" =>
       sched_steps = epoch + 1 /\ n_evals = epoch /\ n_decisions = epoch
  /\ pc = "checkpoint" =>
       sched_steps = epoch + 1 /\ n_evals = epoch + 1 /\ n_decisions = epoch
  /\ pc = "epoch_loop" =>
       /\ n_opt_step = epoch * NumTrainBatches
       /\ sched_steps = epoch /\ n_evals = epoch /\ n_decisions = epoch
  /\ TrainingOver =>
       /\ epoch = num_epochs
       /\ n_opt_step = num_epochs * NumTrainBatches
       /\ n_zero_grad = n_opt_step /\ n_backward = n_opt_step
       /\ sched_steps = num_epochs /\ n_evals = num_epochs /\ n_decisions = num_epochs

C7_Witness ==
  /\ pc = "completed"
  /\ n_decisions = num_epochs
  /\ n_opt_step = num_epochs * NumTrainBatches

\* A score (in tenths) above 0.5.
AboveHalf(d) == 2 * d.score > 10

\* C8: in the test-set visualisation a prediction is shown if and only if its
\* score is above 0.5; the shown predictions keep the output's order; and
\* show_image_with_predictions is called once per image, whatever passes.
C8_ShownAboveThreshold ==
  /\ pc = "test_shown" =>
       /\ predictions = Pick(output, {j \in 1..Len(output) : AboveHalf(output[j])})
       /\ show_calls = n_images + 1
  /\ pc = "test_loop" => show_calls = n_images

C8_Witness ==
  /\ pc = "test_shown"
  /\ Len(output) = 2
  /\ output[1].score = score_threshold
  /\ output[2].score > score_threshold
  /\ predictions = <<output[2]>>

\* Between epochs best_mean_iou is the largest value seen, or 0.
C9_AfterEpoch ==
  pc = "epoch_loop" => IsMaxOf(best_mean_iou, iou_history \cup {Zero})

\* The checkpoint decision saves exactly on a strict improvement.
C9_Decision ==
  pc = "checkpoint" =>
    IF Gt(mean_iou, best_mean_iou)
    THEN /\ n_saves' = n_saves + 1
         /\ rel_best_model_pth' = <<model_weights>>
         /\ best_mean_iou' = mean_iou
    ELSE UNCHANGED <<n_saves, rel_best_model_pth, abs_best_model_pth, best_mean_iou>>

C9_BestNeverDecreases == ~Gt(best_mean_iou, best_mean_iou')

\* C9: after every epoch best_mean_iou is the maximum of 0 and the mean IoU
\* values returned so far, and it never decreases; an epoch writes the
\* checkpoint if and only if its mean IoU is strictly greater than the
\* best_mean_iou it found, so a tie or a 0 leaves file and best unchanged.
C9_BestIsRunningMaximum ==
  /\ []C9_AfterEpoch
  /\ [][C9_Decision /\ C9_BestNeverDecreases]_vars

C9_Witness ==
  /\ pc = "epoch_loop"
  /\ n_saves = 1
  /\ Gt(mean_iou, Zero)
  /\ Eq(mean_iou, best_mean_iou)
  /\ saved_weights.steps < model_weights.steps

\* C10: every optimizer step happens in training mode, and every forward pass
\* of the evaluation and of the visualisation stages happens in eval mode.
C10_ModeMatchesOperation ==
  /\ n_opt_step > 0 => step_mode = TRUE
  /\ forward_log.kind = "train" => forward_log.training = TRUE
  /\ forward_log.kind \in {"evaluate", "test", "image", "video"} =>
       forward_log.training = FALSE
  /\ pc = "checkpoint" => model_training = FALSE

C10_Witness ==
  /\ forward_log.kind = "video"
  /\ n_opt_step = num_epochs * NumTrainBatches
  /\ step_mode = TRUE

====
